---------------------------- MODULE Spec2Model ----------------------------
(***************************************************************************)
(* A model of the datafrog fixpoint engine: Relation (src/src/lib.rs),     *)
(* gallop and the join kernel (src/src/join.rs), the Variable strata and   *)
(* their step function, and the Iteration that drives them.                *)
(*                                                                         *)
(* A tuple is a pair <<key, val>> of naturals, ordered lexicographically,  *)
(* as Rust orders (usize, usize).  A Relation is the sequence of its       *)
(* `elements`.  A Variable is a record of its four fields.                 *)
(***************************************************************************)
EXTENDS Integers, Sequences, FiniteSets, TLC

(***************************************************************************)
(* Bounds of the model.                                                    *)
(***************************************************************************)
MaxKey == 1
MaxVal == 1
MaxIter == 2
MaxIterShort == 1
MaxPending == 2
MaxOps == 5
MaxSeeds == 3
MaxFromLen == 3
MaxSpare == 2
MaxGallopLen == 9
MaxGallopVal == 3
MaxRounds == 32
MaxKernelLen == 5
MaxKernelKey == 3

Keys == 0..MaxKey
Vals == 0..MaxVal
Tuple == Keys \X Vals

(***************************************************************************)
(* Ord for (K, V): derived lexicographic order.                            *)
(***************************************************************************)
TupleLess(a, b) == a[1] < b[1] \/ (a[1] = b[1] /\ a[2] < b[2])

Key(t) == t[1]

Range(s) == {s[i] : i \in DOMAIN s}

Last(s) == s[Len(s)]

Front(s) == SubSeq(s, 1, Len(s) - 1)

\* Is the sequence sorted ascending (equal neighbours allowed)?
IsSorted(s) == \A i \in 1..(Len(s) - 1) : ~TupleLess(s[i + 1], s[i])

\* Is the sequence strictly ascending (sorted, no duplicate)?
IsStrict(s) == \A i \in 1..(Len(s) - 1) : TupleLess(s[i], s[i + 1])

(***************************************************************************)
(* Vec::sort / sort_unstable: the ascending permutation of s, every        *)
(* element as often as s holds it.  Computed on the set S of the values of *)
(* s: the values below the median of S, then the median as many times as s *)
(* holds it, then the values above it.                                     *)
(***************************************************************************)
Median(S) ==
    CHOOSE x \in S : Cardinality({y \in S : TupleLess(y, x)}) = Cardinality(S) \div 2

Count(s, x) == Cardinality({i \in DOMAIN s : s[i] = x})

RECURSIVE SortFrom(_, _)
SortFrom(S, s) ==
    IF S = {}
    THEN <<>>
    ELSE LET m == Median(S)
         IN  SortFrom({y \in S : TupleLess(y, m)}, s)
             \o [i \in 1..Count(s, m) |-> m]
             \o SortFrom({y \in S : TupleLess(m, y)}, s)

Sort(s) == SortFrom(Range(s), s)

(***************************************************************************)
(* Vec::dedup: removes every element equal to its predecessor.  Computed   *)
(* by halves: the first element of the right half goes when it equals the  *)
(* last element of the left half.                                          *)
(***************************************************************************)
RECURSIVE Dedup(_)
Dedup(s) ==
    IF Len(s) <= 1
    THEN s
    ELSE LET h == Len(s) \div 2
         IN  Dedup(SubSeq(s, 1, h))
             \o (IF s[h] = s[h + 1]
                 THEN Tail(Dedup(SubSeq(s, h + 1, Len(s))))
                 ELSE Dedup(SubSeq(s, h + 1, Len(s))))

\* merge without the sort: the second vector after the first, then dedup.
mergeNoSort(a, b) == Dedup(a \o b)

(***************************************************************************)
(* Relation::merge: both vectors in one (which one is extended depends on  *)
(* the capacities; the order of concatenation does not survive the sort),  *)
(* then sort and dedup.                                                    *)
(***************************************************************************)
merge(a, b) == Dedup(Sort(a \o b))

(***************************************************************************)
(* impl From<I> for Relation: collect and sort_unstable.  There is no      *)
(* dedup in this constructor.                                              *)
(***************************************************************************)
RelationFrom(iterator) == Sort(iterator)

(***************************************************************************)
(* Relation::merge with the capacities of the two vectors.  The vector of  *)
(* the larger capacity comes first; the other is appended into its spare   *)
(* capacity when the sum of the lengths is below the capacity ("spare"),   *)
(* and both are copied into a new vector otherwise ("fresh").              *)
(***************************************************************************)
\* MergeExtend that keeps only the first vector on the spare-capacity path.
MergeExtendSpareOnly(elements1, cap1, elements2, cap2) ==
    LET swap == cap1 < cap2
        e1 == IF swap THEN elements2 ELSE elements1
        c1 == IF swap THEN cap2 ELSE cap1
        e2 == IF swap THEN elements1 ELSE elements2
    IN  IF Len(e1) + Len(e2) < c1
        THEN [elements |-> e1, cap |-> c1, path |-> "spare"]
        ELSE [elements |-> e1 \o e2, cap |-> Len(e1) + Len(e2), path |-> "fresh"]

\* The vector `elements` before the sort, its capacity and the path taken.
MergeExtend(elements1, cap1, elements2, cap2) ==
    LET swap == cap1 < cap2
        e1 == IF swap THEN elements2 ELSE elements1
        c1 == IF swap THEN cap2 ELSE cap1
        e2 == IF swap THEN elements1 ELSE elements2
    IN  IF Len(e1) + Len(e2) < c1
        THEN [elements |-> e1 \o e2, cap |-> c1, path |-> "spare"]
        ELSE [elements |-> e1 \o e2, cap |-> Len(e1) + Len(e2), path |-> "fresh"]

\* merge of two relations given as records of elements and capacity.
MergeCap(a, b) ==
    LET e == MergeExtend(a.elements, a.cap, b.elements, b.cap)
    IN  [elements |-> Dedup(Sort(e.elements)), cap |-> e.cap, path |-> e.path]

(***************************************************************************)
(* Relation::from_vec, the constructor the operators of join.rs call; its  *)
(* body is not part of the sources at hand: sort, then dedup.              *)
(***************************************************************************)
from_vec(v) == Dedup(Sort(v))

(***************************************************************************)
(* gallop(slice, cmp).  The predicate is given by its values on the slice: *)
(* p[i] = cmp(&slice[i-1]).  off counts the elements dropped so far, n is  *)
(* the length of the original slice, so slice.len() = n - off and          *)
(* slice[step] is element off + step + 1 of the original.                  *)
(***************************************************************************)
RECURSIVE GallopUp(_, _, _, _)
GallopUp(p, n, off, step) ==
    IF step < n - off /\ p[off + step + 1]
    THEN GallopUp(p, n, off + step, step * 2)
    ELSE <<off, step>>

RECURSIVE GallopDown(_, _, _, _)
GallopDown(p, n, off, step) ==
    IF step > 0
    THEN GallopDown(p, n,
                    IF step < n - off /\ p[off + step + 1] THEN off + step ELSE off,
                    step \div 2)
    ELSE off

\* GallopSkip without the last statement, `slice = &slice[1..]`.
GallopSkipNoAdvance(p, n) ==
    IF n > 0 /\ p[1]
    THEN LET up == GallopUp(p, n, 0, 1)
         IN  GallopDown(p, n, up[1], up[2] \div 2)
    ELSE 0

\* The number of elements gallop drops from the front of the slice.
GallopSkip(p, n) ==
    IF n > 0 /\ p[1]
    THEN LET up == GallopUp(p, n, 0, 1)
         IN  GallopDown(p, n, up[1], up[2] \div 2) + 1
    ELSE 0

gallop(slice, p) == SubSeq(slice, GallopSkip(p, Len(slice)) + 1, Len(slice))


\* TakeWhileKey that stops after the first element.
TakeWhileKeyFirst(slice, k) == 1

(***************************************************************************)
(* join_helper(slice1, slice2, key, key, result): the sequence of the      *)
(* triples <<key, t1, t2>> handed to `result`, in the order of the calls.  *)
(* The key extractors are the first component of the pair.                 *)
(***************************************************************************)
TakeWhileKey(slice, k) ==
    IF \A i \in DOMAIN slice : Key(slice[i]) = k
    THEN Len(slice)
    ELSE (CHOOSE i \in DOMAIN slice :
              /\ Key(slice[i]) # k
              /\ \A j \in 1..(i - 1) : Key(slice[j]) = k) - 1

RECURSIVE join_helper(_, _)
join_helper(slice1, slice2) ==
    IF slice1 = <<>> \/ slice2 = <<>>
    THEN <<>>
    ELSE LET key1 == Key(slice1[1])
             key2 == Key(slice2[1])
         IN  IF key1 < key2
             THEN join_helper(
                      gallop(slice1, [i \in DOMAIN slice1 |-> Key(slice1[i]) < key2]),
                      slice2)
             ELSE IF key1 = key2
             THEN LET count1 == TakeWhileKey(slice1, key1)
                      count2 == TakeWhileKey(slice2, key2)
                      cross == [n \in 1..(count1 * count2) |->
                                  <<key1,
                                    slice1[((n - 1) \div count2) + 1],
                                    slice2[((n - 1) % count2) + 1]>>]
                  IN  cross \o join_helper(SubSeq(slice1, count1 + 1, Len(slice1)),
                                           SubSeq(slice2, count2 + 1, Len(slice2)))
             ELSE join_helper(
                      slice1,
                      gallop(slice2, [i \in DOMAIN slice2 |-> Key(slice2[i]) < key1]))

(***************************************************************************)
(* The closures the host passes as `logic`, by name.                       *)
(***************************************************************************)
JoinLogic(f, k, v1, v2) ==
    CASE f = "vals" -> <<v1, v2>>
      [] f = "keyval1" -> <<k, v1>>
      [] f = "val2key" -> <<v2, k>>

MapLogic(f, t) ==
    CASE f = "swap" -> <<t[2], t[1]>>
      [] f = "diag" -> <<t[1], t[1]>>
      [] f = "collatz" -> IF t[2] % 2 = 0 THEN <<t[1], t[2] \div 2>>
                                          ELSE <<t[1], 3 * t[2] + 1>>

(***************************************************************************)
(* JoinInput: the recent and the stable view of a Variable, and of a       *)
(* Relation (no recent tuples, itself as the one stable batch).            *)
(***************************************************************************)
VariableInput(v) == [recent |-> v.recent, stable |-> v.tuples]

RelationInput(r) == [recent |-> <<>>, stable |-> <<r>>]

RECURSIVE Flatten(_)
Flatten(ss) == IF ss = <<>> THEN <<>> ELSE Head(ss) \o Flatten(Tail(ss))

\* JoinCalls without the loop over the stable batches of input1.
JoinCallsNoStable1(input1, input2) ==
    Flatten([i \in DOMAIN input2.stable |->
                join_helper(input1.recent, input2.stable[i])])
    \o join_helper(input1.recent, input2.recent)

\* JoinCalls without the last call, recent1 against recent2.
JoinCallsNoRecentRecent(input1, input2) ==
    Flatten([i \in DOMAIN input2.stable |->
                join_helper(input1.recent, input2.stable[i])])
    \o Flatten([i \in DOMAIN input1.stable |->
                join_helper(input1.stable[i], input2.recent)])

(***************************************************************************)
(* join_into: the calls of `logic`, in order.  recent1 against every       *)
(* stable batch of input2, every stable batch of input1 against recent2,   *)
(* then recent1 against recent2.                                           *)
(***************************************************************************)
JoinCalls(input1, input2) ==
    Flatten([i \in DOMAIN input2.stable |->
                join_helper(input1.recent, input2.stable[i])])
    \o Flatten([i \in DOMAIN input1.stable |->
                join_helper(input1.stable[i], input2.recent)])
    \o join_helper(input1.recent, input2.recent)

\* The relation join_into hands to output.insert.
join_into(input1, input2, f) ==
    LET calls == JoinCalls(input1, input2)
    IN  from_vec([i \in DOMAIN calls |->
                     JoinLogic(f, calls[i][1], calls[i][2][2], calls[i][3][2])])

\* AntijoinFilter that tests the head of input2 without galloping to the key.
RECURSIVE AntijoinFilterNoGallop(_, _)
AntijoinFilterNoGallop(recent1, tuples2) ==
    IF recent1 = <<>>
    THEN <<>>
    ELSE (IF tuples2 = <<>> \/ tuples2[1] # recent1[1][1] THEN <<recent1[1]>> ELSE <<>>)
         \o AntijoinFilterNoGallop(Tail(recent1), tuples2)

(***************************************************************************)
(* antijoin: the recent tuples of input1 whose key is not in input2, each  *)
(* mapped by logic.  tuples2 is the cursor into input2, galloped past the  *)
(* keys below the tuple's key.                                             *)
(***************************************************************************)
RECURSIVE AntijoinFilter(_, _)
AntijoinFilter(recent1, tuples2) ==
    IF recent1 = <<>>
    THEN <<>>
    ELSE LET key == recent1[1][1]
             rest == gallop(tuples2, [i \in DOMAIN tuples2 |-> tuples2[i] < key])
         IN  (IF rest = <<>> \/ rest[1] # key THEN <<recent1[1]>> ELSE <<>>)
             \o AntijoinFilter(Tail(recent1), rest)

antijoin(input1, input2, f) ==
    LET kept == AntijoinFilter(input1.recent, input2)
    IN  from_vec([i \in DOMAIN kept |-> MapLogic(f, kept[i])])

\* map_into that maps the stable batches of the input as well.
map_intoWithStable(input, f) ==
    LET all == input.recent \o Flatten(input.stable)
    IN  from_vec([i \in DOMAIN all |-> MapLogic(f, all[i])])

(***************************************************************************)
(* map::map_into (the file map.rs is not among the sources): logic on      *)
(* every tuple of input's recent, collected into a relation.               *)
(***************************************************************************)
map_into(input, f) ==
    from_vec([i \in DOMAIN input.recent |-> MapLogic(f, input.recent[i])])

(***************************************************************************)
(* Variable.  new() gives three empty containers and distinct = true;      *)
(* variable_indistinct clears the flag.                                    *)
(***************************************************************************)
VariableNew(d) == [distinct |-> d, tuples |-> <<>>, recent |-> <<>>, to_add |-> <<>>]

\* insert that replaces the pending list by the one relation.
insertReplaces(v, relation) == [v EXCEPT !.to_add = <<relation>>]

\* Variable::insert: push onto to_add.
insert(v, relation) == [v EXCEPT !.to_add = Append(@, relation)]

\* FoldRecent with `<` for `<=` in the test of its loop.
RECURSIVE FoldRecentStrictLess(_, _)
FoldRecentStrictLess(tuples, recent) ==
    IF tuples # <<>> /\ Len(Last(tuples)) < 2 * Len(recent)
    THEN FoldRecentStrictLess(Front(tuples), merge(recent, Last(tuples)))
    ELSE IF recent # <<>> THEN Append(tuples, recent) ELSE tuples

\* FoldRecent without the test `if !recent.is_empty()` before the push.
RECURSIVE FoldRecentPushEmpty(_, _)
FoldRecentPushEmpty(tuples, recent) ==
    IF tuples # <<>> /\ Len(Last(tuples)) <= 2 * Len(recent)
    THEN FoldRecentPushEmpty(Front(tuples), merge(recent, Last(tuples)))
    ELSE Append(tuples, recent)

(***************************************************************************)
(* Variable::changed, step 1: fold recent into the stable batches.         *)
(***************************************************************************)
RECURSIVE FoldRecent(_, _)
FoldRecent(tuples, recent) ==
    IF tuples # <<>> /\ Len(Last(tuples)) <= 2 * Len(recent)
    THEN FoldRecent(Front(tuples), merge(recent, Last(tuples)))
    ELSE IF recent # <<>> THEN Append(tuples, recent) ELSE tuples

\* MergePending without its loop: only the relation popped first is kept.
MergePendingFirstOnly(acc, to_add) == acc

(***************************************************************************)
(* Step 2: pop the pending relations, last first, merging them.            *)
(***************************************************************************)
RECURSIVE MergePending(_, _)
MergePending(acc, to_add) ==
    IF to_add = <<>>
    THEN acc
    ELSE MergePending(merge(acc, Last(to_add)), Front(to_add))

(***************************************************************************)
(* Step 2b: retain the elements not in the batch; `slice` is the cursor    *)
(* into the batch, which the closure keeps between elements.               *)
(***************************************************************************)
RECURSIVE Retain(_, _)
Retain(elements, slice) ==
    IF elements = <<>>
    THEN <<>>
    ELSE LET x == elements[1]
             rest == gallop(slice, [i \in DOMAIN slice |-> TupleLess(slice[i], x)])
         IN  (IF rest = <<>> \/ rest[1] # x THEN <<x>> ELSE <<>>)
             \o Retain(Tail(elements), rest)

\* RetainAll that filters against the first stable batch only.
RetainAllFirstBatch(elements, batches) ==
    IF batches = <<>>
    THEN elements
    ELSE Retain(elements, Head(batches))

RECURSIVE RetainAll(_, _)
RetainAll(elements, batches) ==
    IF batches = <<>>
    THEN elements
    ELSE RetainAll(Retain(elements, Head(batches)), Tail(batches))

\* NextRecent that filters against the stable batches whatever `distinct` is.
NextRecentAlwaysDistinct(v, tuples) ==
    IF v.to_add = <<>>
    THEN <<>>
    ELSE RetainAll(MergePending(Last(v.to_add), Front(v.to_add)), tuples)

\* NextRecent without the filter against the stable batches.
NextRecentNoFilter(v, tuples) ==
    IF v.to_add = <<>>
    THEN <<>>
    ELSE MergePending(Last(v.to_add), Front(v.to_add))

\* NextRecent filtering against the batches as they were before step 1.
NextRecentOldBatches(v, tuples) ==
    IF v.to_add = <<>>
    THEN <<>>
    ELSE LET to_add == MergePending(Last(v.to_add), Front(v.to_add))
         IN  IF v.distinct THEN RetainAll(to_add, v.tuples) ELSE to_add

\* The new recent, given the stable batches after step 1.
NextRecent(v, tuples) ==
    IF v.to_add = <<>>
    THEN <<>>
    ELSE LET to_add == MergePending(Last(v.to_add), Front(v.to_add))
         IN  IF v.distinct THEN RetainAll(to_add, tuples) ELSE to_add

\* What Variable::changed returns, given the variable after the step.
ChangedResult(v) == v.recent # <<>>

\* Variable::changed: the variable after the step and the value returned.
Variable_changed(v) ==
    LET tuples == FoldRecent(v.tuples, v.recent)
        after == [v EXCEPT !.tuples = tuples,
                           !.recent = NextRecent(v, tuples),
                           !.to_add = <<>>]
    IN  [v |-> after, ret |-> ChangedResult(after)]


\* IterationLoop with `||`: no variable is stepped once one reported a change.
RECURSIVE IterationLoopShortCircuit(_, _, _, _)
IterationLoopShortCircuit(vs, st, rets, result) ==
    IF vs = <<>> \/ result
    THEN [st |-> st, rets |-> rets, result |-> result]
    ELSE LET c == Variable_changed(st[Head(vs)])
         IN  IterationLoopShortCircuit(Tail(vs),
                                       [st EXCEPT ![Head(vs)] = c.v],
                                       [rets EXCEPT ![Head(vs)] = c.ret],
                                       result \/ c.ret)

\* IterationLoop with `result = variable.changed()`: the last variable decides.
RECURSIVE IterationLoopLastWins(_, _, _, _)
IterationLoopLastWins(vs, st, rets, result) ==
    IF vs = <<>>
    THEN [st |-> st, rets |-> rets, result |-> result]
    ELSE LET c == Variable_changed(st[Head(vs)])
         IN  IterationLoopLastWins(Tail(vs),
                                   [st EXCEPT ![Head(vs)] = c.v],
                                   [rets EXCEPT ![Head(vs)] = c.ret],
                                   c.ret)

(***************************************************************************)
(* Iteration::changed: every registered variable is stepped, in the order  *)
(* of registration; the result is true if any of them returned true.       *)
(* st is the store of the variables, rets the value each step returned.    *)
(***************************************************************************)
RECURSIVE IterationLoop(_, _, _, _)
IterationLoop(vs, st, rets, result) ==
    IF vs = <<>>
    THEN [st |-> st, rets |-> rets, result |-> result]
    ELSE LET c == Variable_changed(st[Head(vs)])
         IN  IterationLoop(Tail(vs),
                           [st EXCEPT ![Head(vs)] = c.v],
                           [rets EXCEPT ![Head(vs)] = c.ret],
                           result \/ c.ret)

Iteration_changed(vs, st) ==
    IterationLoop(vs, st, [n \in DOMAIN st |-> FALSE], FALSE)

\* CompleteLoop that merges the topmost stable batch only.
CompleteLoopTopBatch(result, tuples) ==
    IF tuples = <<>>
    THEN result
    ELSE merge(result, Last(tuples))

\* The assertions of complete with the second one on the pending tuples
\* instead of the pending list.
CompleteAssertsNoPendingTuple(v) ==
    /\ v.recent = <<>>
    /\ \A i \in DOMAIN v.to_add : v.to_add[i] = <<>>

\* The two assertions at the head of Variable::complete: recent is empty and
\* the list to_add holds no relation.
CompleteAsserts(v) ==
    /\ v.recent = <<>>
    /\ v.to_add = <<>>

(***************************************************************************)
(* Variable::complete, past its two assertions: the stable batches popped  *)
(* and merged into one relation.                                           *)
(***************************************************************************)
RECURSIVE CompleteLoop(_, _)
CompleteLoop(result, tuples) ==
    IF tuples = <<>>
    THEN result
    ELSE CompleteLoop(merge(result, Last(tuples)), Front(tuples))

complete(v) == CompleteLoop(<<>>, v.tuples)

(***************************************************************************)
(* The state.                                                              *)
(*   variables  Iteration.variables: the registered variables, in order    *)
(*   var        the containers of each variable                            *)
(*   last       the operation that ran last                                *)
(*   ret        what the last Iteration::changed returned, what each       *)
(*              variable's step returned, and whether the variable had     *)
(*              pending relations when that step began (had) and whether   *)
(*              these held tuples, all of them already stable or recent    *)
(*              (known), and whether the                                   *)
(*              step followed directly a step that had returned false      *)
(*   added      history: the tuples ever added to each variable            *)
(*   met        history: <<round, t1, t2, n>> for the pairs a join handed  *)
(*              to logic, n times in that round                            *)
(*   pc, round  the host's position in its driving loop, and the number of *)
(*              steps taken                                                *)
(*   ops        the number of operations the host has called               *)
(*   conf       the host program: its rules, logic and static relation     *)
(*   out        the relations complete() returned                          *)
(***************************************************************************)
VARIABLES variables, var, last, ret, added, met, pc, round, ops, conf, out

vars == <<variables, var, last, ret, added, met, pc, round, ops, conf, out>>

\* The tuples a variable holds in each stratum.
StableSet(v) == UNION {Range(v.tuples[i]) : i \in DOMAIN v.tuples}

RecentSet(v) == Range(v.recent)

PendingSet(v) == UNION {Range(v.to_add[i]) : i \in DOMAIN v.to_add}

NoRet(names) ==
    [result |-> FALSE,
     var |-> [n \in names |-> FALSE],
     had |-> [n \in names |-> FALSE],
     known |-> [n \in names |-> FALSE],
     again |-> FALSE]

\* The iterables a host hands to Relation::from: any order, repeats allowed.
IterablesUpTo(len) == UNION {[1..n -> Tuple] : n \in 0..len}

Iterables == IterablesUpTo(MaxIter)

\* The static relations of keys the host hands to from_antijoin (built from
\* iterables without repeats).
KeyRelations == {<<>>, <<0>>, <<1>>, <<0, 1>>}

(***************************************************************************)
(* The operations of the engine as actions on the store.                   *)
(***************************************************************************)
\* iteration.changed()
DoChanged ==
    LET c == Iteration_changed(variables, var)
    IN  /\ var' = c.st
        /\ ret' = [result |-> c.result,
                   var |-> c.rets,
                   had |-> [n \in DOMAIN var |-> var[n].to_add # <<>>],
                   known |-> [n \in DOMAIN var |->
                                 /\ PendingSet(var[n]) # {}
                                 /\ PendingSet(var[n]) \subseteq
                                        (StableSet(var[n]) \cup RecentSet(var[n]))],
                   again |-> (last = "changed" /\ ~ret.result)]
        /\ last' = "changed"

\* v.insert(Relation::from(iterator))
DoInsert(n, iterator) ==
    /\ var' = [var EXCEPT ![n] = insert(@, RelationFrom(iterator))]
    /\ added' = [added EXCEPT ![n] = @ \cup Range(iterator)]
    /\ last' = "insert"

\* The history of a join: the pairs handed to logic in this round.
MetNow(calls) ==
    {<<round, calls[i][2], calls[i][3],
       Cardinality({j \in DOMAIN calls : calls[j] = calls[i]})>> : i \in DOMAIN calls}

\* o.from_join(&i1, &i2, f), input2 a variable or a relation
DoJoin(o, input1, input2, f) ==
    LET r == join_into(input1, input2, f)
    IN  /\ var' = [var EXCEPT ![o] = insert(@, r)]
        /\ added' = [added EXCEPT ![o] = @ \cup Range(r)]
        /\ last' = "from_join"

\* o.from_antijoin(&i1, &relation, f)
DoAntijoin(o, i1, relation, f) ==
    LET r == antijoin(VariableInput(var[i1]), relation, f)
    IN  /\ var' = [var EXCEPT ![o] = insert(@, r)]
        /\ added' = [added EXCEPT ![o] = @ \cup Range(r)]
        /\ last' = "from_antijoin"

\* o.from_map(&i, f)
DoMap(o, i, f) ==
    LET r == map_into(VariableInput(var[i]), f)
    IN  /\ var' = [var EXCEPT ![o] = insert(@, r)]
        /\ added' = [added EXCEPT ![o] = @ \cup Range(r)]
        /\ last' = "from_map"

(***************************************************************************)
(* Spec: a host with one variable "x", distinct or indistinct, that calls  *)
(* insert, the operators (reading and writing x) and the step in any       *)
(* order.                                                                  *)
(***************************************************************************)
Start(vs, flags) ==
    /\ variables = vs
    /\ var = [n \in Range(vs) |-> VariableNew(flags[n])]
    /\ last = "new"
    /\ ret = NoRet(Range(vs))
    /\ added = [n \in Range(vs) |-> {}]
    /\ met = {}
    /\ round = 0
    /\ ops = 0
    /\ out = <<>>

Init ==
    /\ \E d \in BOOLEAN : Start(<<"x">>, [n \in {"x"} |-> d])
    /\ pc = "host"
    /\ conf = <<>>

Room(n) == Len(var[n].to_add) < MaxPending

Insert ==
    \E n \in DOMAIN var, iterator \in Iterables :
        /\ Room(n)
        /\ DoInsert(n, iterator)
        /\ UNCHANGED <<variables, ret, met, pc, round, ops, conf, out>>

FromJoin ==
    \E o \in DOMAIN var, i1 \in DOMAIN var, i2 \in DOMAIN var :
        /\ Room(o)
        /\ DoJoin(o, VariableInput(var[i1]), VariableInput(var[i2]), "vals")
        /\ UNCHANGED <<variables, ret, met, pc, round, ops, conf, out>>

FromAntijoin ==
    \E o \in DOMAIN var, i1 \in DOMAIN var, relation \in KeyRelations :
        /\ Room(o)
        /\ DoAntijoin(o, i1, relation, "swap")
        /\ UNCHANGED <<variables, ret, met, pc, round, ops, conf, out>>

FromMap ==
    \E o \in DOMAIN var, i \in DOMAIN var, f \in {"swap", "diag"} :
        /\ Room(o)
        /\ DoMap(o, i, f)
        /\ UNCHANGED <<variables, ret, met, pc, round, ops, conf, out>>

Changed ==
    /\ DoChanged
    /\ UNCHANGED <<variables, added, met, pc, round, ops, conf, out>>

Next == Insert \/ FromJoin \/ FromAntijoin \/ FromMap \/ Changed

Spec == Init /\ [][Next]_vars


(***************************************************************************)
(* SpecIter: an Iteration with two registered variables, "x" distinct and  *)
(* "y" indistinct (registered in this order), and a host that calls up to  *)
(* MaxOps operations in any order; the operators read and write either.    *)
(***************************************************************************)
InitIter ==
    /\ Start(<<"x", "y">>, [n \in {"x", "y"} |-> n = "x"])
    /\ pc = "host"
    /\ conf = <<>>

IterInsert ==
    \E n \in DOMAIN var, iterator \in IterablesUpTo(MaxIterShort) :
        /\ ops < MaxOps
        /\ DoInsert(n, iterator)
        /\ ops' = ops + 1
        /\ UNCHANGED <<variables, ret, met, pc, round, conf, out>>

IterFromJoin ==
    \E o \in DOMAIN var, i1 \in DOMAIN var, i2 \in DOMAIN var :
        /\ ops < MaxOps
        /\ DoJoin(o, VariableInput(var[i1]), VariableInput(var[i2]), "vals")
        /\ ops' = ops + 1
        /\ UNCHANGED <<variables, ret, met, pc, round, conf, out>>

IterFromAntijoin ==
    \E o \in DOMAIN var, i1 \in DOMAIN var, relation \in KeyRelations :
        /\ ops < MaxOps
        /\ DoAntijoin(o, i1, relation, "swap")
        /\ ops' = ops + 1
        /\ UNCHANGED <<variables, ret, met, pc, round, conf, out>>

IterFromMap ==
    \E o \in DOMAIN var, i \in DOMAIN var, f \in {"swap"} :
        /\ ops < MaxOps
        /\ DoMap(o, i, f)
        /\ ops' = ops + 1
        /\ UNCHANGED <<variables, ret, met, pc, round, conf, out>>

IterChanged ==
    /\ ops < MaxOps
    /\ DoChanged
    /\ ops' = ops + 1
    /\ UNCHANGED <<variables, added, met, pc, round, conf, out>>

NextIter == IterInsert \/ IterFromJoin \/ IterFromAntijoin \/ IterFromMap \/ IterChanged

SpecIter == InitIter /\ [][NextIter]_vars


(***************************************************************************)
(* The claims about the strata of a variable.                              *)
(***************************************************************************)
Strata(v, t) ==
    {z \in {"stable", "recent", "pending"} :
        \/ z = "stable" /\ t \in StableSet(v)
        \/ z = "recent" /\ t \in RecentSet(v)
        \/ z = "pending" /\ t \in PendingSet(v)}

\* C4 as stated: every tuple ever added to a variable is in exactly one of
\* the strata stable, recent and pending.
C4_ExactlyOneStratum ==
    \A n \in DOMAIN var : \A t \in added[n] : Cardinality(Strata(var[n], t)) = 1

\* C4, amended: every tuple ever added to a variable is in at least one of
\* the strata (it is never lost), the strata hold nothing that was not
\* added, and in a distinct variable no tuple is both recent and stable.  A
\* pending relation may repeat a tuple that is recent or stable.
C4_NeverLost ==
    \A n \in DOMAIN var :
        /\ added[n] = StableSet(var[n]) \cup RecentSet(var[n]) \cup PendingSet(var[n])
        /\ var[n].distinct => RecentSet(var[n]) \cap StableSet(var[n]) = {}

\* A tuple has been added again after it became stable: all three strata are
\* in use and a pending tuple is already stable.
C4_Witness ==
    \E n \in DOMAIN var :
        /\ RecentSet(var[n]) # {}
        /\ Len(var[n].to_add) = 2
        /\ PendingSet(var[n]) \cap StableSet(var[n]) # {}

\* C5: in a distinct variable no tuple is in two stable batches and no
\* recent tuple is in a stable batch.
C5_Distinctness ==
    \A n \in DOMAIN var :
        var[n].distinct =>
            /\ \A i, j \in DOMAIN var[n].tuples :
                   i # j => Range(var[n].tuples[i]) \cap Range(var[n].tuples[j]) = {}
            /\ RecentSet(var[n]) \cap StableSet(var[n]) = {}

\* A step of a distinct variable with two stable batches has filtered its
\* pending relations against both.
C5_Witness ==
    \E n \in DOMAIN var :
        /\ var[n].distinct
        /\ last = "changed"
        /\ ret.had[n]
        /\ Len(var[n].tuples) = 2
        /\ added[n] = Tuple

\* C8: a step that directly follows a step that returned false returns
\* false and leaves stable, recent and pending of every variable as they
\* were.
C8_FixpointIdempotent ==
    [][(last = "changed" /\ ~ret.result /\ last' = "changed")
          => (var' = var /\ ~ret'.result)]_vars

\* A second step has run at the fixpoint of a variable with two batches.
C8_Witness ==
    /\ last = "changed"
    /\ ret.again
    /\ \E n \in DOMAIN var : Len(var[n].tuples) = 2

\* C10 as stated: the recent relation and every stable batch of every
\* variable is strictly ascending.
C10_RelationsStrict ==
    \A n \in DOMAIN var :
        /\ IsStrict(var[n].recent)
        /\ \A i \in DOMAIN var[n].tuples : IsStrict(var[n].tuples[i])

(***************************************************************************)
(* The claims about Iteration::changed, under SpecIter.                    *)
(***************************************************************************)
\* C6: after Iteration::changed the pending list of every registered
\* variable is empty.
C6_PendingEmptyAfterStep ==
    last = "changed" => \A n \in Range(variables) : var[n].to_add = <<>>

\* The first variable reported a change and the second had pending relations.
C6_Witness ==
    /\ last = "changed"
    /\ ret.var[variables[1]]
    /\ ret.had[variables[2]]

\* C7: a variable's step returns true iff its recent is non-empty after it,
\* Iteration::changed returns true iff a variable's step did, and a distinct
\* variable whose pending relations held only tuples of its stable batches
\* and its recent returns false.
C7_StepResult ==
    [][last' = "changed" =>
          /\ \A n \in Range(variables) : ret'.var[n] <=> (var'[n].recent # <<>>)
          /\ ret'.result <=> (\E n \in Range(variables) : ret'.var[n])
          /\ \A n \in Range(variables) :
                 (/\ var[n].distinct
                  /\ var[n].to_add # <<>>
                  /\ PendingSet(var[n]) \subseteq
                         (StableSet(var[n]) \cup RecentSet(var[n])))
                 => ~ret'.var[n]]_vars

\* The step of the distinct variable had pending tuples, all of them stable
\* or recent already, and returned false, while the step of the other
\* variable returned true.
C7_Witness ==
    /\ last = "changed"
    /\ ret.known["x"] /\ ~ret.var["x"]
    /\ ret.var["y"] /\ ret.result


(***************************************************************************)
(* SpecFrom: Relation::from applied to an iterable of up to MaxFromLen     *)
(* tuples, in any order and with repeats.                                  *)
(***************************************************************************)
InitFrom ==
    /\ Start(<<>>, <<>>)
    /\ pc = "input"
    /\ conf \in IterablesUpTo(MaxFromLen)

FromApply ==
    /\ pc = "input"
    /\ out' = RelationFrom(conf)
    /\ pc' = "output"
    /\ UNCHANGED <<variables, var, last, ret, added, met, round, ops, conf>>

SpecFrom == InitFrom /\ [][FromApply]_vars

\* C9 as stated: Relation::from yields a strictly ascending relation that
\* holds each value of the iterable exactly once.
C9_FromSortedDeduplicated ==
    pc = "output" => (IsStrict(out) /\ Range(out) = Range(conf))

(***************************************************************************)
(* SpecJoin: the host loop                                                 *)
(*     while iteration.changed() { O.from_join(&A, input2, logic) }        *)
(*     O.complete()                                                        *)
(* over the distinct variables A, B and O.  conf.mode says what input2 is: *)
(* the variable B ("AB"), the variable A again ("AA") or the static        *)
(* relation conf.rel ("ARel").  The host inserts up to MaxSeeds relations  *)
(* into A and B, before the loop or at the end of any round of it.         *)
(***************************************************************************)
JoinModes == {"AB", "AA", "ARel"}

InitJoin ==
    /\ Start(<<"A", "B", "O">>, [n \in {"A", "B", "O"} |-> TRUE])
    /\ pc = "test"
    /\ \E mode \in JoinModes, f \in {"vals", "keyval1"},
          iterator \in IterablesUpTo(MaxIterShort) :
           /\ mode # "ARel" => iterator = <<>>
           /\ mode # "AB" => f = "vals"
           /\ conf = [mode |-> mode, logic |-> f, rel |-> RelationFrom(iterator)]

\* The second input of the join, as a JoinInput and as a set of tuples.
Input2 ==
    CASE conf.mode = "AB" -> VariableInput(var["B"])
      [] conf.mode = "AA" -> VariableInput(var["A"])
      [] conf.mode = "ARel" -> RelationInput(conf.rel)

Input2Added ==
    CASE conf.mode = "AB" -> added["B"]
      [] conf.mode = "AA" -> added["A"]
      [] conf.mode = "ARel" -> Range(conf.rel)

JoinSeed ==
    \E n \in (IF conf.mode = "AB" THEN {"A", "B"} ELSE {"A"}), iterator \in Iterables :
        /\ pc = "test"
        /\ ops < MaxSeeds
        /\ DoInsert(n, iterator)
        /\ ops' = ops + 1
        /\ UNCHANGED <<variables, ret, met, pc, round, conf, out>>

JoinTest ==
    /\ pc = "test"
    /\ DoChanged
    /\ round' = round + 1
    /\ pc' = IF ret'.result THEN "body" ELSE "done"
    /\ UNCHANGED <<variables, added, met, ops, conf, out>>

JoinBody ==
    /\ pc = "body"
    /\ DoJoin("O", VariableInput(var["A"]), Input2, conf.logic)
    /\ met' = met \cup MetNow(JoinCalls(VariableInput(var["A"]), Input2))
    /\ pc' = "test"
    /\ UNCHANGED <<variables, ret, round, ops, conf, out>>

JoinComplete ==
    /\ pc = "done"
    /\ out' = complete(var["O"])
    /\ pc' = "end"
    /\ UNCHANGED <<variables, var, last, ret, added, met, round, ops, conf>>

NextJoin == JoinSeed \/ JoinTest \/ JoinBody \/ JoinComplete

SpecJoin == InitJoin /\ [][NextJoin]_vars

\* The join of two sets of tuples under the logic f.
JoinSet(A, B, f) ==
    {JoinLogic(f, a[1], a[2], b[2]) : <<a, b>> \in {ab \in A \X B : ab[1][1] = ab[2][1]}}

\* C1: when the loop has ended, O.complete() is strictly ascending and its
\* tuples are exactly logic(k, a, b) for the (k, a) inserted into input1 and
\* the (k, b) of input2.
C1_JoinComplete ==
    pc = "end" =>
        /\ IsStrict(out)
        /\ Range(out) = JoinSet(added["A"], Input2Added, conf.logic)

\* A and B were seeded in different rounds, pairs met in two rounds, and the
\* result holds two tuples.
C1_Witness ==
    /\ pc = "end"
    /\ conf.mode = "AB"
    /\ Cardinality(Range(out)) >= 2
    /\ \E m1, m2 \in met : m1[1] # m2[1]

\* C2 as stated: every pair of an input1 tuple and an input2 tuple with
\* equal keys is handed to logic in one round only and once in that round,
\* and when the loop has ended every such pair has been handed to it.
C2_MeetExactlyOnce ==
    /\ \A m \in met : m[4] = 1
    /\ \A m1, m2 \in met : (m1[2] = m2[2] /\ m1[3] = m2[3]) => m1 = m2
    /\ pc = "end" =>
           \A a \in added["A"], b \in Input2Added :
               a[1] = b[1] => \E m \in met : m[2] = a /\ m[3] = b


(***************************************************************************)
(* SpecFix: the host loop                                                  *)
(*     while iteration.changed() { run every rule }                        *)
(*     v.complete() for every variable v                                   *)
(* for a program conf: its distinct variables, the iterables inserted      *)
(* before the loop, and its rules.  A rule is one call of from_join,       *)
(* from_antijoin or from_map.  The programs are the three examples of the  *)
(* documentation of lib.rs and every program of two rules over the         *)
(* variables "x" and "y".                                                  *)
(***************************************************************************)
JoinRule(o, i1, i2, f) ==
    [op |-> "join", out |-> o, in1 |-> i1, in2 |-> i2, rel |-> <<>>, f |-> f]

AntijoinRule(o, i1, relation, f) ==
    [op |-> "antijoin", out |-> o, in1 |-> i1, in2 |-> i1, rel |-> relation, f |-> f]

MapRule(o, i, f) ==
    [op |-> "map", out |-> o, in1 |-> i, in2 |-> i, rel |-> <<>>, f |-> f]

\* lib.rs, the example of from_join: (x, x+1) and (x+1, x) for x in 0 .. 10.
DocJoin ==
    [name |-> "doc_join",
     vars |-> <<"source">>,
     seeds |-> << <<"source", [i \in 1..10 |-> <<i - 1, i>>]>>,
                  <<"source", [i \in 1..10 |-> <<i, i - 1>>]>> >>,
     rules |-> <<JoinRule("source", "source", "source", "vals")>>]

\* lib.rs, the example of from_antijoin: the multiples of three are excluded.
DocAntijoin ==
    [name |-> "doc_antijoin",
     vars |-> <<"source">>,
     seeds |-> << <<"source", [i \in 1..10 |-> <<i - 1, i>>]>> >>,
     rules |-> <<AntijoinRule("source", "source", <<0, 3, 6, 9>>, "swap")>>]

\* lib.rs, the example of from_map: the Collatz step on the value.
DocMap ==
    [name |-> "doc_map",
     vars |-> <<"source">>,
     seeds |-> << <<"source", [i \in 1..10 |-> <<i - 1, i - 1>>]>> >>,
     rules |-> <<MapRule("source", "source", "collatz")>>]

SmallRules ==
    {JoinRule(o, i1, i2, "vals") : <<o, i1, i2>> \in {"x", "y"} \X {"x", "y"} \X {"x", "y"}}
    \cup {AntijoinRule(o, i, <<1>>, "swap") : <<o, i>> \in {"x", "y"} \X {"x", "y"}}
    \cup {MapRule(o, i, "swap") : <<o, i>> \in {"x", "y"} \X {"x", "y"}}

SmallPrograms ==
    {[name |-> "small",
      vars |-> <<"x", "y">>,
      seeds |-> << <<"x", sx>>, <<"y", sy>> >>,
      rules |-> <<r1, r2>>] :
        <<sx, sy, r1, r2>> \in
            Iterables \X IterablesUpTo(MaxIterShort) \X SmallRules \X SmallRules}

Programs == {DocJoin, DocAntijoin, DocMap} \cup SmallPrograms

InitFix ==
    /\ conf \in Programs
    /\ Start(conf.vars, [n \in Range(conf.vars) |-> TRUE])
    /\ pc = "seed"

\* The inserts before the loop, in the order of the program.
RECURSIVE SeedAll(_, _)
SeedAll(st, seeds) ==
    IF seeds = <<>>
    THEN st
    ELSE SeedAll([st EXCEPT ![Head(seeds)[1]] = insert(@, RelationFrom(Head(seeds)[2]))],
                 Tail(seeds))

SeedSet(n) ==
    UNION {Range(conf.seeds[i][2]) : i \in {j \in DOMAIN conf.seeds : conf.seeds[j][1] = n}}

FixSeed ==
    /\ pc = "seed"
    /\ var' = SeedAll(var, conf.seeds)
    /\ added' = [n \in DOMAIN var |-> SeedSet(n)]
    /\ last' = "insert"
    /\ pc' = "test"
    /\ UNCHANGED <<variables, ret, met, round, ops, conf, out>>

FixTest ==
    /\ pc = "test"
    /\ round < MaxRounds
    /\ DoChanged
    /\ round' = round + 1
    /\ pc' = IF ret'.result THEN "body" ELSE "done"
    /\ ops' = 0
    /\ UNCHANGED <<variables, added, met, conf, out>>

\* The next rule of the loop body; ops counts the rules run in this round.
FixRule ==
    /\ pc = "body"
    /\ LET r == conf.rules[ops + 1]
       IN  CASE r.op = "join" ->
                    DoJoin(r.out, VariableInput(var[r.in1]), VariableInput(var[r.in2]), r.f)
             [] r.op = "antijoin" -> DoAntijoin(r.out, r.in1, r.rel, r.f)
             [] r.op = "map" -> DoMap(r.out, r.in1, r.f)
    /\ ops' = ops + 1
    /\ pc' = IF ops + 1 = Len(conf.rules) THEN "test" ELSE "body"
    /\ UNCHANGED <<variables, ret, met, round, conf, out>>

FixComplete ==
    /\ pc = "done"
    /\ out' = [n \in DOMAIN var |-> complete(var[n])]
    /\ pc' = "end"
    /\ UNCHANGED <<variables, var, last, ret, added, met, round, ops, conf>>

NextFix == FixSeed \/ FixTest \/ FixRule \/ FixComplete

SpecFix == InitFix /\ [][NextFix]_vars

(***************************************************************************)
(* Naive evaluation: every rule applied to the full sets, until nothing    *)
(* new appears.                                                            *)
(***************************************************************************)
RuleSet(r, S) ==
    CASE r.op = "join" -> JoinSet(S[r.in1], S[r.in2], r.f)
      [] r.op = "antijoin" ->
             {MapLogic(r.f, t) : t \in {u \in S[r.in1] : u[1] \notin Range(r.rel)}}
      [] r.op = "map" -> {MapLogic(r.f, t) : t \in S[r.in1]}

NaiveApply(prog, S) ==
    [n \in DOMAIN S |->
        S[n] \cup UNION {RuleSet(prog.rules[i], S) :
                            i \in {j \in DOMAIN prog.rules : prog.rules[j].out = n}}]

RECURSIVE NaiveFix(_, _)
NaiveFix(prog, S) ==
    LET T == NaiveApply(prog, S)
    IN  IF T = S THEN S ELSE NaiveFix(prog, T)

LeastFixpoint == NaiveFix(conf, [n \in Range(conf.vars) |-> SeedSet(n)])

\* C3: when the loop has ended, complete() of every variable is strictly
\* ascending and holds exactly the tuples of the naive least fixpoint; the
\* three examples of the documentation give 121, 16 and 74 tuples.
C3_SemiNaiveIsNaive ==
    pc = "end" =>
        /\ \A n \in DOMAIN out :
               IsStrict(out[n]) /\ Range(out[n]) = LeastFixpoint[n]
        /\ conf.name = "doc_join" => Len(out["source"]) = 121
        /\ conf.name = "doc_antijoin" => Len(out["source"]) = 16
        /\ conf.name = "doc_map" => Len(out["source"]) = 74

\* The self-join example has run to its end, over more than two rounds.
C3_Witness ==
    /\ pc = "end"
    /\ conf.name = "doc_join"
    /\ round > 3
    /\ Len(out["source"]) = 121

(***************************************************************************)
(* SpecMerge: Relation::merge applied to three relations a, b and c, each  *)
(* as Relation::from builds it (sorted, repeats possible) and with up to   *)
(* MaxSpare elements of spare capacity: merge(a, b), merge(b, a),          *)
(* merge(merge(a, b), c) and merge(a, merge(b, c)).                        *)
(***************************************************************************)
RelationsWithCap(len) ==
    {[elements |-> RelationFrom(it), cap |-> Len(it) + spare] :
        <<it, spare>> \in IterablesUpTo(len) \X (0..MaxSpare)}

InitMerge ==
    /\ Start(<<>>, <<>>)
    /\ pc = "input"
    /\ \E a \in RelationsWithCap(MaxIter), b \in RelationsWithCap(MaxIter),
          c \in RelationsWithCap(MaxIterShort) :
           conf = [a |-> a, b |-> b, c |-> c]

MergeApply ==
    /\ pc = "input"
    /\ out' = [ab |-> MergeCap(conf.a, conf.b),
               ba |-> MergeCap(conf.b, conf.a),
               ab_c |-> MergeCap(MergeCap(conf.a, conf.b), conf.c),
               a_bc |-> MergeCap(conf.a, MergeCap(conf.b, conf.c))]
    /\ pc' = "output"
    /\ UNCHANGED <<variables, var, last, ret, added, met, round, ops, conf>>

SpecMerge == InitMerge /\ [][MergeApply]_vars

\* C11: merge(a, b) is strictly ascending and holds exactly the elements of
\* a and of b, on either storage path; merge(a, b) = merge(b, a) and
\* merge(merge(a, b), c) = merge(a, merge(b, c)), which holds exactly the
\* elements of a, b and c.
C11_MergeIsUnion ==
    pc = "output" =>
        /\ IsStrict(out.ab.elements)
        /\ Range(out.ab.elements) = Range(conf.a.elements) \cup Range(conf.b.elements)
        /\ out.ab.elements = merge(conf.a.elements, conf.b.elements)
        /\ out.ab.elements = out.ba.elements
        /\ out.ab_c.elements = out.a_bc.elements
        /\ IsStrict(out.ab_c.elements)
        /\ Range(out.ab_c.elements) =
               Range(conf.a.elements) \cup Range(conf.b.elements) \cup Range(conf.c.elements)

\* Two different relations that share a tuple were merged within spare
\* capacity, and a merge was done into a fresh vector.
C11_Witness ==
    /\ pc = "output"
    /\ out.ab.path = "spare"
    /\ out.a_bc.path = "fresh"
    /\ conf.a.elements # conf.b.elements
    /\ Len(conf.a.elements) > 0 /\ Len(conf.b.elements) > 1
    /\ Range(conf.a.elements) \cap Range(conf.b.elements) # {}

(***************************************************************************)
(* SpecGallop: gallop(slice, |y| y < x), one action per statement, on a    *)
(* sorted slice of up to MaxGallopLen naturals.  out holds the local       *)
(* variables: the slice, the step, and whether an index or a range was     *)
(* taken beyond the end of the slice (oob; in the code this is a panic).   *)
(***************************************************************************)
GallopVals == 0..MaxGallopVal

SortedSlices ==
    {s \in UNION {[1..n -> GallopVals] : n \in 0..MaxGallopLen} :
        \A i \in 1..(Len(s) - 1) : s[i] <= s[i + 1]}

\* The closure |y| y < x, by its values on the slice.
LessThan(slice, x) == [i \in DOMAIN slice |-> slice[i] < x]

\* slice[i] (from 0): is the index within the slice, and the closure's value.
GallopRead(slice, i, x) ==
    [ok |-> i < Len(slice), val |-> i < Len(slice) /\ slice[i + 1] < x]

\* &slice[i..]
SliceFrom(slice, i) == SubSeq(slice, i + 1, Len(slice))

InitGallop ==
    /\ Start(<<>>, <<>>)
    /\ pc = "enter"
    /\ \E slice \in SortedSlices, x \in 0..(MaxGallopVal + 1) :
           conf = [slice |-> slice, x |-> x]

\* if !slice.is_empty() && cmp(&slice[0])
GallopEnter ==
    /\ pc = "enter"
    /\ LET r == GallopRead(conf.slice, 0, conf.x)
       IN  /\ out' = [slice |-> conf.slice, step |-> 1, oob |-> FALSE]
           /\ pc' = IF conf.slice # <<>> /\ r.val THEN "up" ELSE "return"
    /\ UNCHANGED <<variables, var, last, ret, added, met, round, ops, conf>>

\* while step < slice.len() && cmp(&slice[step]); then step >>= 1
GallopDoubling ==
    /\ pc = "up"
    /\ LET r == GallopRead(out.slice, out.step, conf.x)
       IN  IF out.step < Len(out.slice) /\ r.val
           THEN /\ out' = [out EXCEPT !.slice = SliceFrom(@, out.step),
                                      !.step = @ * 2,
                                      !.oob = @ \/ ~r.ok \/ out.step > Len(out.slice)]
                /\ pc' = "up"
           ELSE /\ out' = [out EXCEPT !.step = @ \div 2]
                /\ pc' = "down"
    /\ UNCHANGED <<variables, var, last, ret, added, met, round, ops, conf>>

\* while step > 0 { if step < slice.len() && cmp(&slice[step]) .. ; step >>= 1 }
\* and then slice = &slice[1..]
GallopHalving ==
    /\ pc = "down"
    /\ LET r == GallopRead(out.slice, out.step, conf.x)
       IN  IF out.step > 0
           THEN /\ out' = IF out.step < Len(out.slice) /\ r.val
                          THEN [out EXCEPT !.slice = SliceFrom(@, out.step),
                                           !.step = @ \div 2,
                                           !.oob = @ \/ ~r.ok \/ out.step > Len(out.slice)]
                          ELSE [out EXCEPT !.step = @ \div 2]
                /\ pc' = "down"
           ELSE /\ out' = [out EXCEPT !.slice = SliceFrom(@, 1),
                                      !.oob = @ \/ 1 > Len(out.slice)]
                /\ pc' = "return"
    /\ UNCHANGED <<variables, var, last, ret, added, met, round, ops, conf>>

NextGallop == GallopEnter \/ GallopDoubling \/ GallopHalving

SpecGallop == InitGallop /\ [][NextGallop]_vars

\* C12: gallop never takes an index or a range beyond the end of the slice;
\* it returns the suffix of the slice that begins at the first element not
\* satisfying the predicate (every element before it satisfies the
\* predicate): the empty slice for an empty slice and when every element
\* satisfies it, the slice itself when its first element does not.
C12_GallopPostcondition ==
    /\ pc # "enter" => ~out.oob
    /\ pc = "return" =>
           LET s == conf.slice
               p == LessThan(s, conf.x)
               r == gallop(s, p)
               k == Len(s) - Len(r)
           IN  /\ out.slice = r
               /\ k >= 0
               /\ r = SubSeq(s, k + 1, Len(s))
               /\ \A i \in 1..k : p[i]
               /\ r # <<>> => ~p[k + 1]
               /\ s = <<>> => r = <<>>
               /\ (s # <<>> /\ ~p[1]) => r = s
               /\ (\A i \in DOMAIN s : p[i]) => r = <<>>

\* gallop has dropped six elements, by doubling and by halving steps, and
\* returned a suffix of two or more.
C12_Witness ==
    /\ pc = "return"
    /\ Len(conf.slice) - Len(out.slice) = 6
    /\ Len(out.slice) >= 2

(***************************************************************************)
(* SpecComplete: the host of Spec, which may at any moment call complete() *)
(* on its variable.  complete() consumes the variable: it either fails one *)
(* of its assertions (pc = "panicked") or returns the relation out         *)
(* (pc = "returned"), and nothing runs afterwards.                         *)
(***************************************************************************)
HostOperation ==
    /\ pc = "host"
    /\ (Insert \/ FromJoin \/ FromAntijoin \/ FromMap \/ Changed)

Complete ==
    \E n \in DOMAIN var :
        /\ pc = "host"
        /\ IF CompleteAsserts(var[n])
           THEN /\ out' = complete(var[n])
                /\ pc' = "returned"
           ELSE /\ out' = out
                /\ pc' = "panicked"
        /\ UNCHANGED <<variables, var, last, ret, added, met, round, ops, conf>>

NextComplete == HostOperation \/ Complete

SpecComplete == Init /\ [][NextComplete]_vars

\* C13: complete() fails an assertion, and returns no relation, exactly when
\* the variable's recent is non-empty or its pending list holds a relation
\* (be it an empty one); it returns exactly when both are empty.
C13_CompleteAsserts ==
    \A n \in DOMAIN var :
        /\ pc = "panicked" <=>
               (pc # "host" /\ (var[n].recent # <<>> \/ Len(var[n].to_add) > 0))
        /\ pc = "returned" <=>
               (pc # "host" /\ var[n].recent = <<>> /\ Len(var[n].to_add) = 0)
        /\ pc = "panicked" => out = <<>>

\* complete() failed right after an operator that added an empty relation
\* to a variable at its fixpoint.
C13_Witness ==
    \E n \in DOMAIN var :
        /\ pc = "panicked"
        /\ last \in {"from_join", "from_antijoin", "from_map"}
        /\ var[n].recent = <<>>
        /\ var[n].to_add = << <<>> >>
        /\ var[n].tuples # <<>>

\* C14: the relation complete() returns is strictly ascending and holds
\* exactly the tuples ever added to the variable by insert or an operator;
\* the step of a variable to which no tuple was added returns false, and
\* complete() of such a variable returns the empty relation.
C14_CompleteResult ==
    \A n \in DOMAIN var :
        /\ pc = "returned" => (IsStrict(out) /\ Range(out) = added[n])
        /\ (last = "changed" /\ added[n] = {}) => ~ret.var[n]
        /\ (pc = "returned" /\ added[n] = {}) => out = <<>>

\* complete() returned the merge of two stable batches, three tuples or more.
C14_Witness ==
    \E n \in DOMAIN var :
        /\ pc = "returned"
        /\ Len(var[n].tuples) = 2
        /\ Cardinality(added[n]) >= 3
        /\ Len(out) = Cardinality(added[n])

\* complete() returned the empty relation for a variable nothing was added
\* to, after a step.
C14_WitnessEmpty ==
    \E n \in DOMAIN var :
        /\ pc = "returned"
        /\ last = "changed"
        /\ added[n] = {}
        /\ out = <<>>

(***************************************************************************)
(* SpecOps: one call of an operator.  The host has a variable "x"          *)
(* (distinct or not) and a distinct variable "o"; it inserts up to         *)
(* MaxSeeds relations into x and steps the iteration, in any order, and    *)
(* then calls from_join, from_antijoin or from_map once, reading x and     *)
(* writing x or o.  conf records the call.                                 *)
(***************************************************************************)
\* The static relations of keys, as Relation::from builds them.
SortedKeys ==
    {s \in UNION {[1..n -> Keys] : n \in 0..MaxIter} :
        \A i \in 1..(Len(s) - 1) : s[i] <= s[i + 1]}

InitOps ==
    /\ \E d \in BOOLEAN : Start(<<"x", "o">>, [n \in {"x", "o"} |-> n = "o" \/ d])
    /\ pc = "host"
    /\ conf = [op |-> "none"]

OpsInsert ==
    \E iterator \in Iterables :
        /\ pc = "host"
        /\ ops < MaxSeeds
        /\ DoInsert("x", iterator)
        /\ ops' = ops + 1
        /\ UNCHANGED <<variables, ret, met, pc, round, conf, out>>

OpsChanged ==
    /\ pc = "host"
    /\ DoChanged
    /\ UNCHANGED <<variables, added, met, pc, round, ops, conf, out>>

OpsAntijoin ==
    \E o \in {"x", "o"}, relation \in SortedKeys, f \in {"swap", "diag"} :
        /\ pc = "host"
        /\ DoAntijoin(o, "x", relation, f)
        /\ conf' = [op |-> "from_antijoin", out |-> o, rel |-> relation, f |-> f]
        /\ pc' = "called"
        /\ UNCHANGED <<variables, ret, met, round, ops, out>>

OpsMap ==
    \E o \in {"x", "o"}, f \in {"swap", "diag"} :
        /\ pc = "host"
        /\ DoMap(o, "x", f)
        /\ conf' = [op |-> "from_map", out |-> o, rel |-> <<>>, f |-> f]
        /\ pc' = "called"
        /\ UNCHANGED <<variables, ret, met, round, ops, out>>

OpsJoin ==
    \E o \in {"x", "o"} :
        /\ pc = "host"
        /\ DoJoin(o, VariableInput(var["x"]), VariableInput(var["x"]), "vals")
        /\ conf' = [op |-> "from_join", out |-> o, rel |-> <<>>, f |-> "vals"]
        /\ pc' = "called"
        /\ UNCHANGED <<variables, ret, met, round, ops, out>>

NextOps == OpsInsert \/ OpsChanged \/ OpsJoin \/ OpsAntijoin \/ OpsMap

SpecOps == InitOps /\ [][NextOps]_vars

\* C15: a call of from_antijoin appends to the output's pending list one
\* relation, whose tuples are exactly logic(k, v) for the (k, v) of the
\* input's recent with k not in the static relation; the stable batches of
\* the input contribute nothing.
C15_AntijoinSemantics ==
    [][conf'.op = "from_antijoin" =>
          LET o == conf'.out
              r == Last(var'[o].to_add)
          IN  /\ var'[o].to_add = Append(var[o].to_add, r)
              /\ Range(r) = {MapLogic(conf'.f, t) :
                                t \in {u \in RecentSet(var["x"]) :
                                          u[1] \notin Range(conf'.rel)}}
              /\ RecentSet(var["x"]) = {} => r = <<>>]_vars

\* An antijoin has run on a recent of three tuples, two of them with the
\* same key, which is in the static relation, and one that passes; a stable
\* tuple whose key is not in the static relation is not in the result.
C15_Witness ==
    /\ conf.op = "from_antijoin"
    /\ Len(var["x"].recent) >= 3
    /\ \E t1, t2 \in RecentSet(var["x"]) :
           t1 # t2 /\ t1[1] = t2[1] /\ t1[1] \in Range(conf.rel)
    /\ Last(var[conf.out].to_add) # <<>>
    /\ \E t \in StableSet(var["x"]) :
           /\ t[1] \notin Range(conf.rel)
           /\ MapLogic(conf.f, t) \notin Range(Last(var[conf.out].to_add))

\* C16: a call of from_map appends to the output's pending list one
\* relation, whose tuples are exactly logic(t) for the tuples t of the
\* input's recent; the stable batches of the input are not mapped again.
C16_MapSemantics ==
    [][conf'.op = "from_map" =>
          LET o == conf'.out
              r == Last(var'[o].to_add)
          IN  /\ var'[o].to_add = Append(var[o].to_add, r)
              /\ Range(r) = {MapLogic(conf'.f, t) : t \in RecentSet(var["x"])}
              /\ RecentSet(var["x"]) = {} => r = <<>>]_vars

\* A map has run on a recent of two tuples or more, and the image of a
\* stable tuple is not in the result.
C16_Witness ==
    /\ conf.op = "from_map"
    /\ Len(var["x"].recent) >= 2
    /\ \E t \in StableSet(var["x"]) :
           MapLogic(conf.f, t) \notin Range(Last(var[conf.out].to_add))

(***************************************************************************)
(* The claims about the life of a tuple, under Spec.                       *)
(***************************************************************************)
\* C17: in a distinct variable, a step moves every pending tuple that is
\* neither stable nor recent into recent, and moves every recent tuple into
\* a stable batch and out of recent; a stable tuple stays stable and is
\* never recent again, whatever is inserted; and only a step changes recent.
\* So a tuple is recent from one step to the next, and never again.
C17_RecentOnce ==
    [][\A n \in DOMAIN var :
          var[n].distinct =>
              /\ last' = "changed" =>
                     /\ \A t \in PendingSet(var[n]) \ (StableSet(var[n]) \cup RecentSet(var[n])) :
                            t \in RecentSet(var'[n])
                     /\ \A t \in RecentSet(var[n]) :
                            t \in StableSet(var'[n]) /\ t \notin RecentSet(var'[n])
              /\ last' # "changed" => var'[n].recent = var[n].recent
              /\ \A t \in StableSet(var[n]) :
                     t \in StableSet(var'[n]) /\ t \notin RecentSet(var'[n])]_vars

\* A step of a distinct variable with two stable batches had pending tuples,
\* all of them added before and stable or recent by then, and made none of
\* them recent.
C17_Witness ==
    \E n \in DOMAIN var :
        /\ var[n].distinct
        /\ last = "changed"
        /\ ret.known[n]
        /\ var[n].recent = <<>>
        /\ Len(var[n].tuples) = 2
        /\ Cardinality(StableSet(var[n])) >= 3

\* C18: the step of an indistinct variable makes recent exactly the pending
\* tuples, those already in a stable batch included, and returns true when
\* there is one; so a tuple that is stable and inserted again is recent
\* once more.
C18_IndistinctNotFiltered ==
    [][\A n \in DOMAIN var :
          (~var[n].distinct /\ last' = "changed") =>
              /\ RecentSet(var'[n]) = PendingSet(var[n])
              /\ \A t \in PendingSet(var[n]) \cap StableSet(var[n]) :
                     t \in RecentSet(var'[n]) /\ ret'.var[n] /\ ret'.result]_vars

\* After a step of an indistinct variable a tuple is recent and, from an
\* earlier round, in a stable batch.
C18_Witness ==
    \E n \in DOMAIN var :
        /\ ~var[n].distinct
        /\ last = "changed"
        /\ ret.var[n]
        /\ RecentSet(var[n]) \cap StableSet(var[n]) # {}
        /\ Len(var[n].tuples) = 2

(***************************************************************************)
(* SpecFixFair: the host of SpecFix from before it builds its iteration:   *)
(* it registers the variables of one of the programs, and then seeds them, *)
(* loops and completes as in SpecFix.  The host is a sequential program:   *)
(* it runs on as long as it has a next statement, which is the fairness    *)
(* of its program counter.                                                 *)
(***************************************************************************)
InitLoop ==
    /\ Start(<<>>, <<>>)
    /\ pc = "new"
    /\ conf = <<>>

\* Iteration::new() and iteration.variable(..) for every variable.
LoopRegister ==
    /\ pc = "new"
    /\ \E prog \in Programs :
           /\ conf' = prog
           /\ variables' = prog.vars
           /\ var' = [n \in Range(prog.vars) |-> VariableNew(TRUE)]
           /\ ret' = NoRet(Range(prog.vars))
           /\ added' = [n \in Range(prog.vars) |-> {}]
    /\ pc' = "seed"
    /\ UNCHANGED <<last, met, round, ops, out>>

NextLoop == LoopRegister \/ FixSeed \/ FixTest \/ FixRule \/ FixComplete

\* The control of the host: a step of NextLoop is a step of HostAdvances, and
\* HostAdvances is enabled exactly where NextLoop is.
HostAdvances ==
    \/ pc = "new" /\ pc' = "seed" /\ ops' = ops
    \/ pc = "seed" /\ pc' = "test" /\ ops' = ops
    \/ pc = "test" /\ round < MaxRounds /\ pc' \in {"body", "done"} /\ ops' = 0
    \/ pc = "body" /\ pc' \in {"body", "test"} /\ ops' = ops + 1
    \/ pc = "done" /\ pc' = "end" /\ ops' = ops

SpecFixFair == InitLoop /\ [][NextLoop]_vars /\ WF_<<pc, ops>>(HostAdvances)

\* The tuples ever added, counted over all variables.
RECURSIVE SumAdded(_)
SumAdded(names) ==
    IF names = {}
    THEN 0
    ELSE LET n == CHOOSE m \in names : TRUE
         IN  Cardinality(added[n]) + SumAdded(names \ {n})

TotalTuples == SumAdded(DOMAIN added)

\* C19: the fixpoint loop over distinct variables ends - changed() returns
\* false and the host gets to complete() - and whenever changed() has
\* returned true, the number of rounds so far is at most the number of
\* distinct tuples of all variables.
C19_Termination ==
    /\ <>(pc = "end")
    /\ [](pc = "body" => (ret.result /\ round <= TotalTuples))

\* A loop over two variables has ended after three rounds that returned
\* true, as many as there are tuples.
C19_Witness ==
    /\ pc = "end"
    /\ conf.name = "small"
    /\ round - 1 = TotalTuples
    /\ TotalTuples >= 3
    /\ \A n \in DOMAIN added : added[n] # {}

(***************************************************************************)
(* SpecKernel: join_helper, one action per iteration of its loop, on two   *)
(* slices sorted by key of up to MaxKernelLen elements each.  The element  *)
(* at index i (from 0) is <<key, i>>, so that a call tells which elements  *)
(* it was made for.  out holds the two slices as the loop has advanced     *)
(* them and the calls of `result` so far; ops counts the iterations.       *)
(***************************************************************************)
KernelKeys ==
    {s \in UNION {[1..n -> 0..MaxKernelKey] : n \in 0..MaxKernelLen} :
        \A i \in 1..(Len(s) - 1) : s[i] <= s[i + 1]}

Indexed(keys) == [i \in DOMAIN keys |-> <<keys[i], i - 1>>]

InitKernel ==
    /\ variables = <<>> /\ var = <<>> /\ added = <<>>
    /\ last = "new" /\ ret = NoRet({})
    /\ met = {} /\ round = 0 /\ ops = 0
    /\ pc = "loop"
    /\ \E keys1 \in KernelKeys, keys2 \in KernelKeys :
           conf = [slice1 |-> Indexed(keys1), slice2 |-> Indexed(keys2)]
    /\ out = [slice1 |-> conf.slice1, slice2 |-> conf.slice2, calls |-> <<>>]

\* One iteration of `while !slice1.is_empty() && !slice2.is_empty()`.
KernelIterate ==
    /\ pc = "loop"
    /\ out.slice1 # <<>> /\ out.slice2 # <<>>
    /\ LET slice1 == out.slice1
           slice2 == out.slice2
           key1 == Key(slice1[1])
           key2 == Key(slice2[1])
           count1 == TakeWhileKey(slice1, key1)
           count2 == TakeWhileKey(slice2, key2)
       IN  out' =
               IF key1 < key2
               THEN [out EXCEPT !.slice1 =
                        gallop(slice1, [i \in DOMAIN slice1 |-> Key(slice1[i]) < key2])]
               ELSE IF key1 = key2
               THEN [slice1 |-> SubSeq(slice1, count1 + 1, Len(slice1)),
                     slice2 |-> SubSeq(slice2, count2 + 1, Len(slice2)),
                     calls |-> out.calls
                               \o [n \in 1..(count1 * count2) |->
                                      <<key1,
                                        slice1[((n - 1) \div count2) + 1],
                                        slice2[((n - 1) % count2) + 1]>>]]
               ELSE [out EXCEPT !.slice2 =
                        gallop(slice2, [i \in DOMAIN slice2 |-> Key(slice2[i]) < key1])]
    /\ ops' = ops + 1
    /\ UNCHANGED <<variables, var, last, ret, added, met, pc, round, conf>>

\* The loop condition fails: join_helper returns.
KernelReturn ==
    /\ pc = "loop"
    /\ out.slice1 = <<>> \/ out.slice2 = <<>>
    /\ pc' = "return"
    /\ UNCHANGED <<variables, var, last, ret, added, met, round, ops, conf, out>>

NextKernel == KernelIterate \/ KernelReturn

SpecKernel == InitKernel /\ [][NextKernel]_vars

\* The order of the calls: by key, then left index, then right index.
CallBefore(c, d) ==
    \/ c[1] < d[1]
    \/ c[1] = d[1] /\ c[2][2] < d[2][2]
    \/ c[1] = d[1] /\ c[2][2] = d[2][2] /\ c[3][2] < d[3][2]

\* C20: join_helper calls `result` for exactly the pairs of an element of
\* slice1 and an element of slice2 with equal keys, each pair once, in the
\* order of key, then left index, then right index; every iteration of its
\* loop shortens a slice, and it returns when one of them is empty.
C20_JoinKernel ==
    /\ ops + Len(out.slice1) + Len(out.slice2) <= Len(conf.slice1) + Len(conf.slice2)
    /\ \A m, n \in DOMAIN out.calls : m < n => CallBefore(out.calls[m], out.calls[n])
    /\ pc = "return" =>
           /\ out.slice1 = <<>> \/ out.slice2 = <<>>
           /\ Range(out.calls) =
                  {<<Key(ab[1]), ab[1], ab[2]>> :
                      ab \in {cd \in Range(conf.slice1) \X Range(conf.slice2) :
                                 Key(cd[1]) = Key(cd[2])}}
           /\ out.calls = join_helper(conf.slice1, conf.slice2)

\* join_helper has returned with slice1 exhausted and slice2 not, after
\* calls for a block of two by two elements and for a later key.
C20_Witness ==
    /\ pc = "return"
    /\ out.slice1 = <<>> /\ out.slice2 # <<>>
    /\ Len(out.calls) >= 5
    /\ \E m, n \in DOMAIN out.calls : out.calls[m][1] # out.calls[n][1]
    /\ ops >= 3

(***************************************************************************)
(* The claim about the sizes of the stable batches, under Spec.            *)
(***************************************************************************)
\* The number of tuples the stable batches of a variable hold: the sum of
\* their lengths.
RECURSIVE StableCount(_)
StableCount(tuples) ==
    IF tuples = <<>> THEN 0 ELSE Len(Head(tuples)) + StableCount(Tail(tuples))

\* C21: no stable batch is empty, every stable batch is more than twice as
\* long as the batch pushed after it, and so k batches hold at least
\* 2^(k-1) tuples (k <= 1 + log2 of the number of stable tuples); where the
\* batches are strictly ascending, the bottom batch alone holds that many
\* different tuples.
C21_GeometricBatches ==
    \A n \in DOMAIN var :
        LET tuples == var[n].tuples
            k == Len(tuples)
        IN  /\ \A i \in 1..k : tuples[i] # <<>>
            /\ \A i \in 1..(k - 1) : Len(tuples[i]) > 2 * Len(tuples[i + 1])
            /\ k > 0 => 2 ^ (k - 1) <= StableCount(tuples)
            /\ (k > 0 /\ \A i \in 1..k : IsStrict(tuples[i]))
                   => 2 ^ (k - 1) <= Cardinality(StableSet(var[n]))

\* After a step a batch of three tuples lies below a batch of one.
C21_Witness ==
    \E n \in DOMAIN var :
        /\ last = "changed"
        /\ Len(var[n].tuples) = 2
        /\ Len(var[n].tuples[1]) = 3
        /\ Len(var[n].tuples[2]) = 1

(***************************************************************************)
(* The claim about what an operator changes, under SpecOps.                *)
(***************************************************************************)
\* C22: insert, from_join, from_antijoin and from_map append one relation to
\* the pending list of their output variable and change nothing else:
\* recent and the stable batches of every variable (of the output too, when
\* it is the input) and the pending lists of the other variables stay as
\* they were, so what the operators read does not change before the next
\* step.
C22_OperatorsAppendToPending ==
    [][last' \in {"insert", "from_join", "from_antijoin", "from_map"} =>
          LET o == IF last' = "insert" THEN "x" ELSE conf'.out
          IN  /\ variables' = variables
              /\ DOMAIN var' = DOMAIN var
              /\ \A n \in DOMAIN var :
                     /\ var'[n].recent = var[n].recent
                     /\ var'[n].tuples = var[n].tuples
                     /\ var'[n].distinct = var[n].distinct
                     /\ VariableInput(var'[n]) = VariableInput(var[n])
                     /\ n # o => var'[n].to_add = var[n].to_add
              /\ Len(var'[o].to_add) = Len(var[o].to_add) + 1
              /\ SubSeq(var'[o].to_add, 1, Len(var[o].to_add)) = var[o].to_add]_vars

\* A join of x with itself has written to x, which had a pending relation
\* already: its result holds a tuple that is neither recent nor stable.
C22_Witness ==
    /\ conf.op = "from_join"
    /\ conf.out = "x"
    /\ Len(var["x"].to_add) = 2
    /\ var["x"].recent # <<>>
    /\ var["x"].tuples # <<>>
    /\ ~(Range(Last(var["x"].to_add)) \subseteq (RecentSet(var["x"]) \cup StableSet(var["x"])))

(***************************************************************************)
(* SpecOrder: the host loop of SpecFix for the programs of two rules, with *)
(* the order left open: in each round the host runs its rules in any order *)
(* and the iteration steps its variables in any order.  One action is one  *)
(* round: the rules, then iteration.changed().  out records the order of   *)
(* the rules and of the variables in the last round.                       *)
(***************************************************************************)
\* The relation a rule inserts into its output, given the store.
RuleResult(st, r) ==
    CASE r.op = "join" ->
             join_into(VariableInput(st[r.in1]), VariableInput(st[r.in2]), r.f)
      [] r.op = "antijoin" -> antijoin(VariableInput(st[r.in1]), r.rel, r.f)
      [] r.op = "map" -> map_into(VariableInput(st[r.in1]), r.f)

\* The store after the rules have run, one after the other.
RECURSIVE ApplyRules(_, _)
ApplyRules(st, rules) ==
    IF rules = <<>>
    THEN st
    ELSE LET r == Head(rules)
         IN  ApplyRules([st EXCEPT ![r.out] = insert(@, RuleResult(st, r))], Tail(rules))

\* Every order of the elements of a sequence.
Orders(s) == {[i \in DOMAIN s |-> s[p[i]]] : p \in Permutations(DOMAIN s)}

InitOrder ==
    /\ conf \in SmallPrograms
    /\ Start(conf.vars, [n \in Range(conf.vars) |-> TRUE])
    /\ pc = "seed"

\* The round computed once: the store after the rules and the step on it.
RoundOutcome(st, rules, vs) ==
    {[mid |-> mid, c |-> Iteration_changed(vs, mid)] : mid \in {ApplyRules(st, rules)}}

OrderRound ==
    /\ pc = "body"
    /\ round < MaxRounds
    /\ \E rules \in Orders(conf.rules), vs \in Orders(variables) :
           \E o \in RoundOutcome(var, rules, vs) :
               /\ var' = o.c.st
               /\ ret' = [result |-> o.c.result,
                          var |-> o.c.rets,
                          had |-> [n \in DOMAIN var |-> o.mid[n].to_add # <<>>],
                          known |-> [n \in DOMAIN var |->
                                        /\ PendingSet(o.mid[n]) # {}
                                        /\ PendingSet(o.mid[n]) \subseteq
                                               (StableSet(o.mid[n]) \cup RecentSet(o.mid[n]))],
                          again |-> FALSE]
               /\ added' = [n \in DOMAIN var |-> added[n] \cup PendingSet(o.mid[n])]
               /\ out' = [rules |-> rules, vs |-> vs]
               /\ pc' = IF o.c.result THEN "body" ELSE "done"
    /\ last' = "changed"
    /\ round' = round + 1
    /\ UNCHANGED <<variables, met, ops, conf>>

NextOrder == FixSeed \/ FixTest \/ OrderRound

SpecOrder == InitOrder /\ [][NextOrder]_vars

\* C23: whatever the order in which the rules of a round run and the order
\* in which the iteration steps its variables, recent and the stable
\* batches of every variable after the step, and what the step returns, are
\* those of the rules run in the order of the program and the variables
\* stepped in the order of registration.
C23_OrderIndependence ==
    [][pc = "body" =>
          \A ref \in RoundOutcome(var, conf.rules, conf.vars) :
              /\ \A n \in DOMAIN var :
                     /\ var'[n].recent = ref.c.st[n].recent
                     /\ var'[n].tuples = ref.c.st[n].tuples
                     /\ var'[n].to_add = ref.c.st[n].to_add
                     /\ ret'.var[n] = ref.c.rets[n]
              /\ ret'.result = ref.c.result]_vars

\* A round has run two different rules with the same output in the reverse
\* order and stepped the variables in the reverse order, and has made two
\* tuples or more recent in that output, which has stable tuples.
C23_Witness ==
    /\ pc = "body"
    /\ round >= 3
    /\ out.rules # conf.rules
    /\ out.vs # conf.vars
    /\ conf.rules[1].out = conf.rules[2].out
    /\ conf.rules[1].op # conf.rules[2].op
    /\ Len(var[conf.rules[1].out].recent) >= 2
    /\ var[conf.rules[1].out].tuples # <<>>

=============================================================================
